---- MODULE Spec2Model ----
(***************************************************************************)
(* Model of src/date_formal.py (class PlotlyVisualizer): the source-file   *)
(* selection of process_files / extract_info_from_filename and the        *)
(* per-entry record derivation of extract_vn_info.                         *)
(*                                                                         *)
(* SpecSelect runs process_files over one directory listing, one loop      *)
(* iteration per step.  SpecExtract runs the loop of extract_vn_info, one  *)
(* <vn> element per step, while the wall clock (datetime.today(), read     *)
(* anew for every entry) may pass midnight between two iterations.         *)
(***************************************************************************)
EXTENDS Integers, Sequences, FiniteSets, TLC

VARIABLES
    pc,                  \* "scan" | "returned" | "loop" | "done" | "error"
    err,                 \* the exception that ended the run, "" if none
    file_list,           \* os.listdir(folder_path)
    idx,                 \* position of the for loop in file_list
    latest_file,         \* process_files: latest_file (NoFile is None)
    latest_export_time,  \* process_files: latest_export_time
    usernames,           \* process_files: usernames
    time_range,          \* self.time_range, a "%Y-%m-%d" text
    today,               \* datetime.today().date(), as a day ordinal
    ticks,               \* midnights passed since the extraction began
    n,                   \* <vn> elements visited so far
    vn,                  \* the loop variable of extract_vn_info
    results              \* extract_vn_info: results

vars == <<pc, err, file_list, idx, latest_file, latest_export_time, usernames,
          time_range, today, ticks, n, vn, results>>

selectVars == <<file_list, idx, latest_file, latest_export_time, usernames>>
extractVars == <<time_range, today, ticks, n, vn, results>>

\* ---------------------------------------------------------------- bounds
MaxFiles == 3
MaxEntries == 2
MaxTicks == 1
\* binary digits of line_length kept after the point (1/Res of a day)
LogFracBits == 5

\* ------------------------------------------------------- calendar (datetime)
NoneVal == "<None>"

IsLeap(y) == (y % 4 = 0 /\ y % 100 # 0) \/ y % 400 = 0

DaysInMonth(y, m) ==
    IF m \in {4, 6, 9, 11} THEN 30
    ELSE IF m = 2 THEN (IF IsLeap(y) THEN 29 ELSE 28)
    ELSE 31

RECURSIVE DaysBeforeMonth(_, _)
DaysBeforeMonth(y, m) ==
    IF m <= 1 THEN 0 ELSE DaysBeforeMonth(y, m - 1) + DaysInMonth(y, m - 1)

\* date.toordinal(): days since 0001-01-01, that day being 1
Ordinal(y, m, d) ==
    365 * (y - 1) + ((y - 1) \div 4) - ((y - 1) \div 100) + ((y - 1) \div 400)
    + DaysBeforeMonth(y, m) + d

ValidYmd(y, m, d) ==
    /\ y \in 1..9999
    /\ m \in 1..12
    /\ d \in 1..DaysInMonth(y, m)

\* ------------------------------------------------------------ file names
\* A file name is  <prefix>-<owner>-<stamp><rest>.  stamp is the run of
\* characters where the 14 digits are expected: digits tells whether it is
\* exactly 14 digits, ts gives their fields <<Y, m, d, H, M, S>>.
Stamp(ok, y, mo, d, h, mi, s) == [digits |-> ok, ts |-> <<y, mo, d, h, mi, s>>]

FileName(p, o, st, r) == [prefix |-> p, owner |-> o, stamp |-> st, rest |-> r]

NoFile == FileName("", "", Stamp(FALSE, 0, 0, 0, 0, 0, 0), "")

\* datetime(1970, 1, 1)
Epoch == <<1970, 1, 1, 0, 0, 0>>

\* filename.endswith('.xml')
EndsWithXml(f) == f.rest \in {".xml", ".xml.copy.xml"}

\* re.match(r'vndb-list-export-(\w+)-(\d{14}).xml', filename): anchored at
\* the start only, so anything may follow the "xml"
MatchesPattern(f) ==
    /\ f.prefix = "vndb-list-export"
    /\ f.owner # ""
    /\ f.stamp.digits
    /\ f.rest \in {".xml", ".xml.copy.xml", ".xml.txt"}

\* datetime.strptime(export_time_str, '%Y%m%d%H%M%S') succeeds
StampParses(ts) ==
    /\ ValidYmd(ts[1], ts[2], ts[3])
    /\ ts[4] \in 0..23
    /\ ts[5] \in 0..59
    /\ ts[6] \in 0..61

\* extract_info_from_filename returns (rather than raising ValueError)
InfoExtracts(f) == MatchesPattern(f) /\ StampParses(f.stamp.ts)

RECURSIVE LexLess(_, _, _)
LexLess(a, b, i) ==
    IF i > Len(a) THEN FALSE
    ELSE IF a[i] # b[i] THEN a[i] < b[i]
    ELSE LexLess(a, b, i + 1)

\* datetime comparison  a < b
Before(a, b) == LexLess(a, b, 1)

IsLaterMutant(export_time, latest) == Before(export_time, latest)
\* export_time > latest_export_time
IsLater(export_time, latest) == Before(latest, export_time)

GoodStamps ==
    { Stamp(TRUE, 1969, 12, 31, 23, 59, 59),
      Stamp(TRUE, 1970, 1, 1, 0, 0, 0),
      Stamp(TRUE, 2023, 1, 1, 0, 0, 0),
      Stamp(TRUE, 2024, 1, 1, 0, 0, 0) }

FileNames ==
    { FileName("vndb-list-export", o, st, ".xml") : o \in {"A", "B"}, st \in GoodStamps }
    \cup
    { FileName("vndb-list-export", "A", Stamp(TRUE, 2024, 1, 1, 0, 0, 0), ".xml.copy.xml"),
      FileName("vndb-list-export", "A", Stamp(TRUE, 2024, 1, 1, 0, 0, 0), ".xml.txt"),
      FileName("vndb-list-export", "A", Stamp(TRUE, 2023, 13, 1, 0, 0, 0), ".xml"),
      FileName("vndb-list-export", "A", Stamp(FALSE, 2023, 1, 1, 0, 0, 0), ".xml"),
      FileName("vndb-list-export", "", Stamp(TRUE, 2023, 1, 1, 0, 0, 0), ".xml"),
      FileName("notes", "A", Stamp(TRUE, 2023, 1, 1, 0, 0, 0), ".xml"),
      FileName("date_formal", "", Stamp(FALSE, 0, 0, 0, 0, 0, 0), ".py") }

\* directory listings: lists of distinct names, in any order
Listings ==
    { l \in UNION { [1..k -> FileNames] : k \in 0..MaxFiles } :
        \A i, j \in DOMAIN l : i # j => l[i] # l[j] }

\* ------------------------------------------------- entries of the export
\* The text of a <started>/<finished> element: st is "absent" (no such
\* element), "empty" (element without text, .text is None), "junk" (text not
\* of the form %Y-%m-%d) or "ymd" (text Y-m-d with the fields y, m, d).
Field(st, y, m, d) == [st |-> st, y |-> y, m |-> m, d |-> d]
Absent == Field("absent", 0, 0, 0)
Empty == Field("empty", 0, 0, 0)
Junk == Field("junk", 0, 0, 0)
Ymd(y, m, d) == Field("ymd", y, m, d)

\* datetime.strptime(text, "%Y-%m-%d") succeeds
Parses(f) == f.st = "ymd" /\ ValidYmd(f.y, f.m, f.d)

\* the day strptime / pd.to_datetime gives for a text that parses
DayOf(f) == Ordinal(f.y, f.m, f.d)

\* A <vn> element: its <title> (elem: present; original: the attribute;
\* text), its <label> (elem: present; label: the attribute) and the two dates.
\* NoneVal stands for Python's None.
Title(elem, original, text) == [elem |-> elem, original |-> original, text |-> text]
Label(elem, label) == [elem |-> elem, label |-> label]
Entry(started, title, label, finished) ==
    [started |-> started, title |-> title, label |-> label, finished |-> finished]

NoLabel == Label(FALSE, NoneVal)
\* the loop variable before the first iteration
NoEntry == Entry(Absent, Title(FALSE, NoneVal, NoneVal), NoLabel, Absent)

\* ---------------------------------------------------------------- select
InitSelect ==
    /\ pc = "scan"
    /\ err = ""
    /\ file_list \in Listings
    /\ idx = 1
    /\ latest_file = NoFile
    /\ latest_export_time = Epoch
    /\ usernames = {}
    /\ time_range = Ymd(2020, 1, 1)
    /\ today = Ordinal(2021, 8, 1)
    /\ ticks = 0
    /\ n = 0
    /\ vn = NoEntry
    /\ results = <<>>

\* one iteration of  for filename in file_list  (lines 35-41)
ProcessFile ==
    /\ pc = "scan"
    /\ idx <= Len(file_list)
    /\ LET filename == file_list[idx] IN
         IF ~EndsWithXml(filename)
         THEN /\ idx' = idx + 1
              /\ UNCHANGED <<pc, err, latest_file, latest_export_time, usernames>>
         ELSE IF ~InfoExtracts(filename)
         THEN /\ pc' = "error"
              /\ err' = "MalformedFilename"
              /\ UNCHANGED <<idx, latest_file, latest_export_time, usernames>>
         ELSE /\ usernames' = usernames \cup {filename.owner}
              /\ IF IsLater(filename.stamp.ts, latest_export_time)
                 THEN /\ latest_export_time' = filename.stamp.ts
                      /\ latest_file' = filename
                 ELSE UNCHANGED <<latest_file, latest_export_time>>
              /\ idx' = idx + 1
              /\ UNCHANGED <<pc, err>>
    /\ UNCHANGED <<file_list, extractVars>>

\* after the loop: the two checks and the return (lines 42-47)
ProcessFilesEnd ==
    /\ pc = "scan"
    /\ idx > Len(file_list)
    /\ IF latest_file = NoFile
       THEN pc' = "error" /\ err' = "NoMatchingFile"
       ELSE IF Cardinality(usernames) > 1
       THEN pc' = "error" /\ err' = "MultipleOwners"
       ELSE pc' = "returned" /\ err' = ""
    /\ UNCHANGED <<selectVars, extractVars>>

NextSelect == ProcessFile \/ ProcessFilesEnd

SpecSelect == InitSelect /\ [][NextSelect]_vars

\* ------------------------------------------- math.log(x, 1.27), fixed point
\* 1.27 as a ratio
BaseNum == 127
BaseDen == 100

\* Arithmetic is done on integers scaled by FixScale (six decimals), kept
\* inside 32 bits by splitting products at FixHalf.
FixHalf == 10 * 10 * 10
FixScale == FixHalf * FixHalf

\* line_length is kept in units of 1/Res of a day
Res == 2 ^ LogFracBits

\* y * a / b, rounded to nearest
MulDiv(y, a, b) == (y \div b) * a + (((y % b) * a + (b \div 2)) \div b)

\* y * y / FixScale, rounded
Square(y) ==
    LET a == y \div FixHalf
        b == y % FixHalf
    IN  a * a + ((2 * a * b + ((b * b) \div FixHalf) + (FixHalf \div 2)) \div FixHalf)

\* y / FixScale >= 1.27
AtLeastBase(y) == y >= (BaseNum * FixScale) \div BaseDen

\* whole part of the logarithm: divide by 1.27 while it fits; <<k, remainder>>
RECURSIVE LogWhole(_, _)
LogWhole(y, k) ==
    IF AtLeastBase(y) THEN LogWhole(MulDiv(y, BaseDen, BaseNum), k + 1)
    ELSE <<k, y>>

\* binary digits after the point, by repeated squaring of the remainder
RECURSIVE LogFrac(_, _, _)
LogFrac(y, bits, f) ==
    IF bits = 0 THEN f
    ELSE LET z == Square(y) IN
         IF AtLeastBase(z)
         THEN LogFrac(MulDiv(z, BaseDen, BaseNum), bits - 1, 2 * f + 1)
         ELSE LogFrac(z, bits - 1, 2 * f)

\* math.log(x, 1.27) for x >= 1, truncated to a multiple of 1/Res
Log127(x) ==
    LET w == LogWhole(x * FixScale, 0)
    IN  w[1] * Res + LogFrac(w[2], LogFracBits, 0)

\* ------------------------------------------------------------- extraction

\* the value bound to  finished : a str, None, or a pandas Timestamp whose
\* instant t counts 1/Res days
FinStr(f) == [tag |-> "str", txt |-> f, t |-> 0]
FinNone == [tag |-> "None", txt |-> Empty, t |-> 0]
FinTimestamp(t) == [tag |-> "Timestamp", txt |-> Absent, t |-> t]

PassesGateMutant(started, cutoff) ==
    /\ Parses(started)
    /\ Parses(cutoff)
    /\ DayOf(started) > DayOf(cutoff)
\* lines 57-62: the try block falls through (no continue)
PassesGate(started, cutoff) ==
    /\ Parses(started)
    /\ Parses(cutoff)
    /\ ~(DayOf(started) < DayOf(cutoff))

\* lines 65-67
ResolveTitle(t) == IF t.original # NoneVal THEN t.original ELSE t.text

\* lines 70-73
ResolveLabel(l) == IF l.elem THEN l.label ELSE "Finished"

\* line 81: (pd.to_datetime(today) - pd.to_datetime(started)).days
DaysDiff(now, started) == now - DayOf(started)

StalledFinishedMutant(started, now) ==
    FinTimestamp(DayOf(started) * Res + Log127(DaysDiff(now, started) + 2))
\* lines 82-83: started + DateOffset(days = log(days_diff + 1, 1.27))
StalledFinished(started, now) ==
    FinTimestamp(DayOf(started) * Res + Log127(DaysDiff(now, started) + 1))

TodayFinishedMutant(now) == FinTimestamp((now - 1) * Res)
\* line 85: pd.to_datetime(datetime.today().date())
TodayFinished(now) == FinTimestamp(now * Res)

\* line 82: math.log raises ValueError unless its argument is positive
LogRaises(e, label, now) ==
    /\ e.finished.st = "absent"
    /\ label = "Stalled"
    /\ DaysDiff(now, e.started) + 1 <= 0

ResolveFinishedMutant(e, label, now) ==
    IF e.finished.st # "absent" /\ label # "Stalled"
    THEN (IF e.finished.st = "empty" THEN FinNone ELSE FinStr(e.finished))
    ELSE IF label = "Stalled" THEN StalledFinished(e.started, now)
    ELSE TodayFinished(now)
\* lines 76-85
ResolveFinished(e, label, now) ==
    IF e.finished.st # "absent"
    THEN (IF e.finished.st = "empty" THEN FinNone ELSE FinStr(e.finished))
    ELSE IF label = "Stalled" THEN StalledFinished(e.started, now)
    ELSE TodayFinished(now)

\* line 87
Record(e, now) ==
    [title |-> ResolveTitle(e.title),
     started |-> e.started,
     finished |-> ResolveFinished(e, ResolveLabel(e.label), now),
     label |-> ResolveLabel(e.label)]

PlainTitle == Title(TRUE, "T0", "t0")
Stalled == Label(TRUE, "Stalled")
Playing == Label(TRUE, "Playing")

Entries ==
    \* entries that pass the gate, with and without <finished>
    { Entry(s, PlainTitle, l, f) :
        s \in {Ymd(2021, 5, 1), Ymd(2021, 8, 2)},
        l \in {NoLabel, Stalled, Playing},
        f \in {Absent, Ymd(2022, 6, 1)} }
    \cup
    \* Stalled entries of other ages (a day, across a leap day, from the cutoff)
    { Entry(s, PlainTitle, Stalled, Absent) :
        s \in {Ymd(2021, 7, 31), Ymd(2020, 2, 29), Ymd(2020, 1, 1)} }
    \cup
    \* the start-date gate
    { Entry(s, PlainTitle, Playing, Absent) :
        s \in {Absent, Empty, Junk, Ymd(2021, 2, 30), Ymd(2019, 12, 31), Ymd(2020, 1, 1)} }
    \cup
    \* titles
    { Entry(Ymd(2021, 5, 1), t, Playing, Ymd(2022, 6, 1)) :
        t \in {Title(FALSE, NoneVal, NoneVal), Title(TRUE, NoneVal, NoneVal),
               Title(TRUE, NoneVal, "T1"), Title(TRUE, "", "T1")} }
    \cup
    \* <label> without the attribute, <finished> empty, malformed or early
    { Entry(Ymd(2021, 5, 1), PlainTitle, Label(TRUE, NoneVal), Absent),
      Entry(Ymd(2021, 5, 1), PlainTitle, Playing, Empty),
      Entry(Ymd(2021, 5, 1), PlainTitle, Stalled, Empty),
      Entry(Ymd(2021, 5, 1), PlainTitle, Playing, Junk),
      Entry(Ymd(2021, 5, 1), PlainTitle, Playing, Ymd(2021, 4, 1)) }

InitExtract ==
    /\ pc = "loop"
    /\ err = ""
    /\ file_list = <<>>
    /\ idx = 1
    /\ latest_file = NoFile
    /\ latest_export_time = Epoch
    /\ usernames = {}
    /\ time_range \in {Ymd(2020, 1, 1), Ymd(2021, 5, 1)}
    /\ today = Ordinal(2021, 8, 1)
    /\ ticks = 0
    /\ n = 0
    /\ vn = NoEntry
    /\ results = <<>>

\* one iteration of  for vn in vns.findall('vn')  (lines 54-87)
ExtractVn ==
    /\ pc = "loop"
    /\ n < MaxEntries
    /\ \E e \in Entries :
         /\ vn' = e
         /\ n' = n + 1
         /\ IF ~PassesGate(e.started, time_range)
            THEN UNCHANGED <<pc, err, results>>
            ELSE IF ~e.title.elem
            THEN pc' = "error" /\ err' = "AttributeError" /\ UNCHANGED results
            ELSE IF LogRaises(e, ResolveLabel(e.label), today)
            THEN pc' = "error" /\ err' = "ValueError" /\ UNCHANGED results
            ELSE /\ results' = Append(results, Record(e, today))
                 /\ UNCHANGED <<pc, err>>
    /\ UNCHANGED <<selectVars, time_range, today, ticks>>

\* the loop is exhausted: return results (line 88)
ReturnResults ==
    /\ pc = "loop"
    /\ pc' = "done"
    /\ UNCHANGED <<err, selectVars, extractVars>>

\* midnight passes while the loop runs: the next datetime.today() is a day on
Midnight ==
    /\ pc = "loop"
    /\ ticks < MaxTicks
    /\ ticks' = ticks + 1
    /\ today' = today + 1
    /\ UNCHANGED <<pc, err, selectVars, time_range, n, vn, results>>

NextExtract == ExtractVn \/ ReturnResults \/ Midnight

SpecExtract == InitExtract /\ [][NextExtract]_vars

\* ------------------------------------------------------ claims on select
\* the files of the listing that process_files takes as candidates
Candidates ==
    { file_list[i] : i \in { j \in DOMAIN file_list :
                               EndsWithXml(file_list[j]) /\ InfoExtracts(file_list[j]) } }

Owners == { f.owner : f \in Candidates }

A2023 == FileName("vndb-list-export", "A", Stamp(TRUE, 2023, 1, 1, 0, 0, 0), ".xml")
A2024 == FileName("vndb-list-export", "A", Stamp(TRUE, 2024, 1, 1, 0, 0, 0), ".xml")

\* C1: whenever process_files returns, the returned file is a candidate of
\* the listing and no candidate of the listing has a later export time,
\* whatever the listing and its order.
C1_ReturnsLatest ==
    pc = "returned" =>
        /\ latest_file \in Candidates
        /\ \A f \in Candidates : ~Before(latest_file.stamp.ts, f.stamp.ts)

\* C1 witness: owners [A, A] with 20230101000000 and 20240101000000, the
\* older one listed last, and the 2024 file returned.
C1_Witness ==
    /\ pc = "returned"
    /\ file_list = <<A2024, A2023>>
    /\ latest_file = A2024

\* C2 (as claimed): a listing made of matching names that carry two or more
\* owners always ends in the multiple-owners error.
C2_MultipleOwnersAlways ==
    ( /\ pc # "scan"
      /\ \A i \in DOMAIN file_list : file_list[i] \in Candidates
      /\ Cardinality(Owners) >= 2 )
    => (pc = "error" /\ err = "MultipleOwners")

\* C3 (as claimed): a name that does not match never ends the run, the
\* latest candidate is returned when there are candidates of one owner, and
\* the no-matching-file error is raised exactly when there is no candidate.
C3_MalformedNamesExcluded ==
    /\ err # "MalformedFilename"
    /\ pc # "scan" => (err = "NoMatchingFile" <=> Candidates = {})
    /\ (pc # "scan" /\ Cardinality(Owners) = 1) =>
          /\ pc = "returned"
          /\ latest_file \in Candidates
          /\ \A f \in Candidates : ~Before(latest_file.stamp.ts, f.stamp.ts)

\* ----------------------------------------------------- claims on extract
\* the record the step just appended
Last(seq) == seq[Len(seq)]
Emitted == Len(results') = Len(results) + 1 /\ SubSeq(results', 1, Len(results)) = results

\* the start-date gate as the claims word it
NoStartDate(e) == e.started.st \in {"absent", "empty"}
BeforeCutoff(e) == Parses(e.started) /\ DayOf(e.started) < DayOf(time_range)
Qualifies(e) == Parses(e.started) /\ DayOf(e.started) >= DayOf(time_range)

\* C4: an entry whose started is missing, is no calendar date or lies before
\* the cutoff adds no record (and ends nothing); an entry whose started is the
\* cutoff day itself is emitted unless the run aborts on it.
C4_StartGate ==
    [][ n' = n + 1 =>
          /\ (NoStartDate(vn') \/ ~Parses(vn'.started) \/ BeforeCutoff(vn'))
                => (results' = results /\ pc' = pc)
          /\ (Parses(vn'.started) /\ DayOf(vn'.started) = DayOf(time_range)
                /\ pc' = "loop")
                => (Emitted /\ Last(results').started = vn'.started) ]_vars

\* C4 witness: the entry dated on the cutoff was emitted, the entry dated the
\* day before was then skipped.
C4_Witness ==
    /\ n = 2
    /\ Len(results) = 1
    /\ results[1].started = time_range
    /\ BeforeCutoff(vn)

\* C5 (as claimed): every record has a title that is neither None nor empty,
\* a started that is a calendar date and a finished that is one.
C5_RecordsWellFormed ==
    \A i \in DOMAIN results :
        /\ results[i].title \notin {NoneVal, ""}
        /\ Parses(results[i].started)
        /\ \/ results[i].finished.tag = "Timestamp"
           \/ results[i].finished.tag = "str" /\ Parses(results[i].finished.txt)

\* C6 (as claimed): no entry ends the extraction with an exception.
C6_NeverAborts == pc \in {"loop", "done"}

\* 1.27 ^ k, scaled by FixScale
RECURSIVE Power127(_)
Power127(k) == IF k = 0 THEN FixScale ELSE MulDiv(Power127(k - 1), BaseNum, BaseDen)

StalledCase(e) == Qualifies(e) /\ e.finished.st = "absent" /\ e.label = Stalled
StartedMay1(e) == e.started = Ymd(2021, 5, 1) /\ today = Ordinal(2021, 8, 1)

\* what C7 says of one step, but for the size of line_length in its example:
\* the record is emitted when started is not after today, its finished is a
\* Timestamp at started + L/Res days where 1.27^whole(L) <= days_diff + 1 <
\* 1.27^(whole(L) + 1), and for started 2021-05-01, today 2021-08-01:
\* days_diff = 92 and finished falls on 2021-05-19.
C7_Step(lo, hi) ==
    (n' = n + 1 /\ StalledCase(vn') /\ vn'.title.elem) =>
        LET dd == today - DayOf(vn'.started)
            L == Last(results').finished.t - DayOf(vn'.started) * Res
        IN  /\ pc' = "loop" <=> dd >= 0
            /\ pc' = "loop" =>
                 /\ Emitted
                 /\ Last(results').finished.tag = "Timestamp"
                 /\ L >= 0
                 /\ Power127(L \div Res) <= (dd + 1) * FixScale
                 /\ (dd + 1) * FixScale < Power127((L \div Res) + 1)
                 /\ StartedMay1(vn') =>
                      /\ dd = 92
                      /\ (L * 100) \div Res \in lo..hi
                      /\ Last(results').finished.t \div Res = Ordinal(2021, 5, 19)

C8_SameToday ==
    \A i, j \in DOMAIN results :
        ( /\ results[i].finished.tag = "Timestamp" /\ results[i].label # "Stalled"
          /\ results[j].finished.tag = "Timestamp" /\ results[j].label # "Stalled" )
        => results[i].finished = results[j].finished

\* C9: an entry that passes the gate and has a <finished> text is emitted
\* with that text as its finished, whatever its label, and never with a
\* derived Timestamp.
C9_FinishedVerbatim ==
    [][ ( /\ n' = n + 1
          /\ Qualifies(vn')
          /\ vn'.finished.st \in {"ymd", "junk"}
          /\ vn'.title.elem )
        => /\ pc' = "loop"
           /\ Emitted
           /\ Last(results').finished.tag = "str"
           /\ Last(results').finished.txt = vn'.finished ]_vars

\* C9 witness: a Stalled entry with <finished>2022-06-01</finished> was
\* emitted with that text.
C9_Witness ==
    /\ n >= 1
    /\ Qualifies(vn)
    /\ vn.label = Stalled
    /\ vn.finished = Ymd(2022, 6, 1)
    /\ Len(results) >= 1
    /\ Last(results).label = "Stalled"
    /\ Last(results).finished = FinStr(Ymd(2022, 6, 1))

\* C10: a record whose finished was derived, from an entry whose started is
\* not after today, has finished >= started.
C10_DerivedNotBeforeStart ==
    [][ ( /\ n' = n + 1
          /\ Len(results') = Len(results) + 1
          /\ Last(results').finished.tag = "Timestamp"
          /\ DayOf(vn'.started) <= today )
        => Last(results').finished.t >= DayOf(vn'.started) * Res ]_vars

\* C10 witness: both derivations happened for entries started by today, a
\* Stalled one ending strictly after its start and one ending today; and a
\* record started after today that ends before its start exists as well.
C10_Witness ==
    /\ Len(results) = 2
    /\ ticks = 0
    /\ results[1].started = Ymd(2021, 5, 1)
    /\ results[1].label = "Stalled"
    /\ results[1].finished.tag = "Timestamp"
    /\ results[1].finished.t > DayOf(results[1].started) * Res
    /\ results[2].started = Ymd(2021, 8, 2)
    /\ results[2].finished.tag = "Timestamp"
    /\ results[2].finished.t < DayOf(results[2].started) * Res

====
